---------------------------- MODULE Spec2Model ----------------------------
(***************************************************************************)
(* State-machine model of the PPT -> narrated MP4 service.                 *)
(*                                                                         *)
(*   src/app.py          job record store (jobs, status.json), the worker  *)
(*                       run_conversion_async and the HTTP endpoints       *)
(*   src/ppt_pipeline.py run_pipeline and its helpers                      *)
(*                                                                         *)
(* The worker of a job is a thread: its position is pc[j].  Every call of  *)
(* an external capability (file system, COM host, HTTP, ffmpeg) is a step  *)
(* whose outcome (return or raise, and what it left on disk) is chosen by  *)
(* the environment.  update_job is not synchronised with the endpoint      *)
(* threads, so each of its statements is a step of its own.                *)
(***************************************************************************)
EXTENDS Integers, Sequences, FiniteSets, TLC

(* ------------------------------ bounds --------------------------------- *)
\* Largest number of slides of an uploaded deck.
MaxSlides == 2

(* ------------------------------ values --------------------------------- *)
\* uuid4 ids of the jobs the model follows.
JobIds == {"j1"}

\* Python's None and a present value.
None == <<>>
Some(v) == <<v>>

\* Raw speaker-note texts of a slide, as character sequences: no notes,
\* whitespace only, text padded with whitespace.
Blank == " "
NoteTexts == {<<>>, <<Blank>>, <<Blank, "a", Blank>>}

\* The durations probe_duration_seconds measures of a synthesized clip, in
\* seconds: the one note text of NoteTexts synthesizes to one clip length.
Durations == {3}

\* Decks: one raw note text per slide, in slide order.
Decks == UNION {[1..n -> NoteTexts] : n \in 0..MaxSlides}

RECURSIVE LStrip(_)
LStrip(s) == IF s # <<>> /\ Head(s) = Blank THEN LStrip(Tail(s)) ELSE s

RECURSIVE RStrip(_)
RStrip(s) ==
    IF s # <<>> /\ s[Len(s)] = Blank THEN RStrip(SubSeq(s, 1, Len(s) - 1)) ELSE s

\* str.strip() were it to remove one blank at most from each end.
Strip_once(s) ==
    LET t == IF s # <<>> /\ Head(s) = Blank THEN Tail(s) ELSE s
    IN IF t # <<>> /\ t[Len(t)] = Blank THEN SubSeq(t, 1, Len(t) - 1) ELSE t

\* str.strip()
Strip(s) == RStrip(LStrip(s))

\* extract_slide_notes were the text of the notes taken as it is.
extract_slide_notes_unstripped(deck) ==
    [i \in 1..Len(deck) |->
        [slide |-> i, text |-> deck[i], has_notes |-> deck[i] # <<>>]]

\* extract_slide_notes: one entry per slide, index from 1, text stripped.
extract_slide_notes(deck) ==
    [i \in 1..Len(deck) |->
        [slide |-> i, text |-> Strip(deck[i]), has_notes |-> Strip(deck[i]) # <<>>]]

(* --------------------------- files on disk ----------------------------- *)
NoFile == [exists |-> FALSE]
File(content) == [exists |-> TRUE, content |-> content]

\* A media file is either empty (created, nothing written yet: zero bytes),
\* partial (being written) or whole.
EmptyMedia == File("empty")
PartialMedia == File("partial")
WholeMedia == File("whole")

(* ------------------------------ json ----------------------------------- *)
\* json.dumps of one value of the record, by the Python type the field holds.
JsonValue(k, v) ==
    CASE k = "progress" -> [num |-> v]
      [] k = "output" -> IF v = None THEN [null |-> TRUE] ELSE [str |-> v[1]]
      [] k \in {"telemetry", "settings"} -> [obj |-> v]
      [] OTHER -> [str |-> v]

\* json.loads of one value.
PyValue(k, t) ==
    CASE "num" \in DOMAIN t -> t.num
      [] "null" \in DOMAIN t -> None
      [] "obj" \in DOMAIN t -> t.obj
      [] OTHER -> IF k = "output" THEN Some(t.str) ELSE t.str

JsonDumps(job) == [k \in DOMAIN job |-> JsonValue(k, job[k])]
JsonLoads(doc) == [k \in DOMAIN doc |-> PyValue(k, doc[k])]

(* ------------------------------ state ---------------------------------- *)
VARIABLES
    jobs,           \* app.jobs: job id -> in-memory record (created ids only)
    status_json,    \* JOBS_DIR/<id>/status.json
    status_log,     \* JOBS_DIR/<id>/status.log, the lines appended
    clock,          \* the reading of utc_now_iso
    returned,       \* the record as the last update_job (or creation) that returned left it
    credentials,    \* AZURE_TTS_KEY and AZURE_TTS_REGION are both set
    deck,           \* the uploaded deck of the job
    pc,             \* position of the job's worker thread
    call,           \* arguments of the update_job call in progress
    ret,            \* where the worker continues when that call returns
    exc,            \* text of the exception the worker is handling
    escaped,        \* an exception left the worker thread
    slide_notes,    \* run_pipeline: slide_notes
    slide_i,        \* run_pipeline: position of the synthesis loop
    audio_files,    \* run_pipeline: audio_files, as slide indexes
    tts_requests,   \* requests sent to the synthesis service, as slide indexes
    audio_durations,\* run_pipeline: audio_durations, slide index -> seconds
    ppt,            \* the export host: none, running, or quit (safe_quit_powerpoint ran)
    presentation,   \* the host's document: none, open, or closed (safe_close_presentation ran)
    video_status,   \* presentation.CreateVideoStatus as last read
    save_as_calls,  \* the presentation.SaveAs calls made, by call site
    timings,        \* the AdvanceTime of each slide: as each loop applied it, in the
                    \* document last opened (and its presentation.Saved), and in
                    \* the working copy tmp_pptx on disk
    video_raw,      \* JOBS_DIR/<id>/video_raw.mp4
    narration,      \* JOBS_DIR/<id>/narration.mp3
    final_mp4,      \* JOBS_DIR/<id>/final.mp4
    response        \* the last response an endpoint returned

store == <<jobs, status_json, status_log, clock, returned>>
worker == <<pc, call, ret, exc, escaped>>
pipeline == <<slide_notes, slide_i, audio_files, tts_requests, audio_durations>>
export == <<ppt, presentation, video_status, save_as_calls, timings, video_raw>>
media == <<narration, final_mp4>>
vars == <<store, worker, pipeline, export, media, credentials, deck, response>>

\* No slide timing applied, no document opened, no working copy saved.
NoTimings == [applied |-> <<>>, document |-> <<>>, saved |-> TRUE, tmp_pptx |-> NoFile]

NoCall == [status |-> None, progress |-> None, message |-> None, kwargs |-> <<>>]
NoResponse == [endpoint |-> "none"]

\* The service after its start: no job, nothing on disk.
Started ==
    /\ jobs = <<>>
    /\ status_json = [j \in JobIds |-> NoFile]
    /\ status_log = [j \in JobIds |-> <<>>]
    /\ clock = 1
    /\ returned = [j \in JobIds |-> None]
    /\ credentials \in BOOLEAN
    /\ deck = [j \in JobIds |-> <<>>]
    /\ pc = [j \in JobIds |-> "none"]
    /\ call = [j \in JobIds |-> NoCall]
    /\ ret = [j \in JobIds |-> "none"]
    /\ exc = [j \in JobIds |-> ""]
    /\ escaped = [j \in JobIds |-> FALSE]
    /\ slide_notes = [j \in JobIds |-> <<>>]
    /\ slide_i = [j \in JobIds |-> 0]
    /\ audio_files = [j \in JobIds |-> <<>>]
    /\ tts_requests = [j \in JobIds |-> <<>>]
    /\ audio_durations = [j \in JobIds |-> <<>>]
    /\ ppt = [j \in JobIds |-> "none"]
    /\ presentation = [j \in JobIds |-> "none"]
    /\ video_status = [j \in JobIds |-> 0]
    /\ save_as_calls = [j \in JobIds |-> <<>>]
    /\ timings = [j \in JobIds |-> NoTimings]
    /\ video_raw = [j \in JobIds |-> NoFile]
    /\ narration = [j \in JobIds |-> NoFile]
    /\ final_mp4 = [j \in JobIds |-> NoFile]

Init == Started /\ response = NoResponse


(* -------------------------- job record store --------------------------- *)
\* VOICE = "en-US-JennyNeural", as characters.
VOICE == <<"e", "n", "-", "U", "S", "-", "J", "e", "n", "n", "y",
           "N", "e", "u", "r", "a", "l">>

\* DEFAULT_PIPELINE_SETTINGS, which parse_pipeline_settings returns for a
\* form left at its defaults.  A settings dict maps a key to None or to a
\* value; texts are character sequences.
DEFAULT_PIPELINE_SETTINGS ==
    [voice |-> Some(VOICE), speaking_rate |-> Some(<<"0", "%">>),
     resolution |-> Some(1080), fps |-> Some(30), quality |-> Some(100)]

Min(a, b) == IF a < b THEN a ELSE b
Max(a, b) == IF a > b THEN a ELSE b

\* The clamp with its bounds the wrong way round: min(lo, max(hi, v)).
Clamp_swapped(lo, hi, v) == Min(lo, Max(hi, v))

\* max(lo, min(hi, v))
Clamp(lo, hi, v) == Max(lo, Min(hi, v))

\* `text.strip() or default`
StripOr(text, default) == IF Strip(text) = <<>> THEN default ELSE Strip(text)

\* normalize_pipeline_settings(settings): the defaults, overlaid with the
\* values of settings that are not None, then each field normalised; int()
\* of an integer is that integer and str() of a text that text.
normalize_pipeline_settings(settings) ==
    LET merged == [k \in DOMAIN DEFAULT_PIPELINE_SETTINGS \cup DOMAIN settings |->
                      IF k \in DOMAIN settings /\ settings[k] # None
                      THEN settings[k] ELSE DEFAULT_PIPELINE_SETTINGS[k]]
    IN [merged EXCEPT
          !.voice = Some(StripOr(merged.voice[1], VOICE)),
          !.speaking_rate = Some(StripOr(merged.speaking_rate[1], <<"0", "%">>)),
          !.resolution = Some(Clamp(240, 2160, merged.resolution[1])),
          !.fps = Some(Clamp(1, 60, merged.fps[1])),
          !.quality = Some(Clamp(1, 100, merged.quality[1]))]

\* parse_pipeline_settings(voice, speaking_rate, resolution, fps, quality)
parse_pipeline_settings(voice, speaking_rate, resolution, fps, quality) ==
    normalize_pipeline_settings(
        [voice |-> Some(voice), speaking_rate |-> Some(speaking_rate),
         resolution |-> Some(resolution), fps |-> Some(fps), quality |-> Some(quality)])

\* The record convert_ppt inserts.
NewJob(j, created, updated) ==
    [job_id |-> j, status |-> "processing", stage |-> "upload", progress |-> 5,
     message |-> "Saving PPT", output |-> None, filename |-> "deck.pptx",
     settings |-> parse_pipeline_settings(VOICE, <<"0", "%">>, 1080, 30, 100),
     telemetry |-> {},
     created_at |-> created, updated_at |-> updated, log |-> "status.log"]

\* persist_status as it would write were the document patched from the
\* arguments of the call instead of dumped from the record: the stamp of
\* updated_at does not reach the file.
persist_status_text_unstamped(j) ==
    <<JsonDumps([jobs[j] EXCEPT !.updated_at = jobs[j].created_at])>>

\* The text persist_status writes for job j: json.dumps(jobs[job_id]).
persist_status_text(j) == <<JsonDumps(jobs[j])>>

\* update_job: job["updated_at"] = utc_now_iso()
update_job_stamped(job, now) == [job EXCEPT !.updated_at = now]

\* update_job: `if status: job["status"] = status`
set_status(job, status) ==
    IF status # None /\ status[1] # "" THEN [job EXCEPT !.status = status[1]] ELSE job

\* update_job: `if progress is not None: job["progress"] = progress`
set_progress(job, progress) ==
    IF progress # None THEN [job EXCEPT !.progress = progress[1]] ELSE job

\* update_job: `if message: job["message"] = message`
set_message(job, message) ==
    IF message # None /\ message[1] # "" THEN [job EXCEPT !.message = message[1]] ELSE job

\* A value of the keyword field k is None; output is the field of the record
\* that holds None.
IsNone(k, v) == k = "output" /\ v = None

\* dict.update(kwargs) were it to skip the keyword fields passed as None.
Merge_non_null(job, kwargs) ==
    [k \in DOMAIN job \cup DOMAIN kwargs |->
        IF k \in DOMAIN kwargs /\ ~IsNone(k, kwargs[k]) THEN kwargs[k] ELSE job[k]]

\* dict.update(kwargs)
Merge(job, kwargs) ==
    [k \in DOMAIN job \cup DOMAIN kwargs |->
        IF k \in DOMAIN kwargs THEN kwargs[k] ELSE job[k]]

\* update_job(job_id, status, progress, message, **kwargs) on the record, up
\* to persist_status.
update_job(job, args, now) ==
    update_job_stamped(
        Merge(set_message(set_progress(set_status(job, args.status), args.progress),
                          args.message),
              args.kwargs),
        now)

\* The worker raises text: inside the try of run_conversion_async the handler
\* takes it; inside the handler it propagates through the finally clause.
Raise(j, text) ==
    IF exc[j] = ""
    THEN /\ pc' = [pc EXCEPT ![j] = "except"]
         /\ exc' = [exc EXCEPT ![j] = text]
    ELSE /\ pc' = [pc EXCEPT ![j] = "finally_raise"]
         /\ exc' = exc

\* Control reaches the next statement.
Goto(j, label) == pc' = [pc EXCEPT ![j] = label] /\ exc' = exc

\* update_job(job_id, status, progress, message, **kwargs) is entered and
\* `if status: job["status"] = status` runs.
update_job_enter(j, args, back) ==
    /\ call' = [call EXCEPT ![j] = args]
    /\ ret' = [ret EXCEPT ![j] = back]
    /\ jobs' = [jobs EXCEPT ![j] = set_status(@, args.status)]
    /\ pc' = [pc EXCEPT ![j] = "update_job_progress"]
    /\ UNCHANGED <<status_json, status_log, clock, returned, exc, escaped>>

\* update_job: `if progress is not None: job["progress"] = progress`
update_job_progress(j) ==
    /\ pc[j] = "update_job_progress"
    /\ jobs' = [jobs EXCEPT ![j] = set_progress(@, call[j].progress)]
    /\ pc' = [pc EXCEPT ![j] = "update_job_message"]
    /\ UNCHANGED <<status_json, status_log, clock, returned, call, ret, exc, escaped,
                   pipeline, export, media, credentials, deck, response>>

\* update_job: `if message: job["message"] = message; append_log(...)`.
\* append_log opens the log for appending and writes, which may raise OSError.
update_job_message(j) ==
    /\ pc[j] = "update_job_message"
    /\ jobs' = [jobs EXCEPT ![j] = set_message(@, call[j].message)]
    /\ IF call[j].message # None /\ call[j].message[1] # ""
       THEN /\ \/ /\ status_log' = [status_log EXCEPT
                                      ![j] = Append(@, call[j].message[1])]
                  /\ Goto(j, "update_job_kwargs")
               \/ /\ status_log' = status_log
                  /\ Raise(j, "OSError: status.log")
       ELSE /\ status_log' = status_log
            /\ Goto(j, "update_job_kwargs")
    /\ UNCHANGED <<status_json, clock, returned, call, ret, escaped,
                   pipeline, export, media, credentials, deck, response>>

\* update_job: job.update(kwargs)
update_job_kwargs(j) ==
    /\ pc[j] = "update_job_kwargs"
    /\ jobs' = [jobs EXCEPT ![j] = Merge(@, call[j].kwargs)]
    /\ pc' = [pc EXCEPT ![j] = "update_job_stamp"]
    /\ UNCHANGED <<status_json, status_log, clock, returned, call, ret, exc, escaped,
                   pipeline, export, media, credentials, deck, response>>

\* update_job: job["updated_at"] = utc_now_iso()
update_job_stamp(j) ==
    /\ pc[j] = "update_job_stamp"
    /\ jobs' = [jobs EXCEPT ![j] = update_job_stamped(@, clock)]
    /\ clock' = clock + 1
    /\ pc' = [pc EXCEPT ![j] = "persist_status_open"]
    /\ UNCHANGED <<status_json, status_log, returned, call, ret, exc, escaped,
                   pipeline, export, media, credentials, deck, response>>

\* persist_status: status_path.write_text opens the file for writing, which
\* truncates it, or raises OSError and leaves it as it was.
persist_status_open(j) ==
    /\ pc[j] = "persist_status_open"
    /\ \/ /\ status_json' = [status_json EXCEPT ![j] = File(<<>>)]
          /\ Goto(j, "persist_status_write")
       \/ /\ status_json' = status_json
          /\ Raise(j, "OSError: status.json")
    /\ UNCHANGED <<jobs, status_log, clock, returned, call, ret, escaped,
                   pipeline, export, media, credentials, deck, response>>

\* persist_status: the text is written and the file closed, and update_job
\* returns to its caller; or the write raises OSError and the file stays
\* truncated.
persist_status_write(j) ==
    /\ pc[j] = "persist_status_write"
    /\ \/ /\ status_json' = [status_json EXCEPT ![j] = File(persist_status_text(j))]
          /\ returned' = [returned EXCEPT ![j] = Some(jobs[j])]
          /\ Goto(j, ret[j])
       \/ /\ status_json' = status_json
          /\ returned' = returned
          /\ Raise(j, "OSError: status.json")
    /\ UNCHANGED <<jobs, status_log, clock, call, ret, escaped,
                   pipeline, export, media, credentials, deck, response>>

(* ----------------------------- submission ------------------------------ *)
\* convert_ppt from `jobs[job_id] = {...}` on, with the id j and the uploaded
\* deck d: the record is inserted and persisted, the upload saved and the
\* worker thread started.  A raise of persist_status, append_log or the copy
\* of the upload ends the request before the thread is started.
submit(j, d) ==
    /\ jobs' = (j :> NewJob(j, clock, clock + 1)) @@ jobs
    /\ clock' = clock + 2
    /\ deck' = [deck EXCEPT ![j] = d]
    /\ \/ /\ status_json' = [status_json EXCEPT
                               ![j] = File(<<JsonDumps(NewJob(j, clock, clock + 1))>>)]
          /\ status_log' = [status_log EXCEPT
                              ![j] = @ \o <<"Job created", "Saved PPT">>]
          /\ returned' = [returned EXCEPT ![j] = Some(NewJob(j, clock, clock + 1))]
          /\ pc' = [pc EXCEPT ![j] = "CoInitialize"]
       \/ /\ status_json' = [status_json EXCEPT
                               ![j] = File(<<JsonDumps(NewJob(j, clock, clock + 1))>>)]
          /\ status_log' \in {status_log,
                               [status_log EXCEPT ![j] = Append(@, "Job created")]}
          /\ returned' = [returned EXCEPT ![j] = Some(NewJob(j, clock, clock + 1))]
          /\ pc' = [pc EXCEPT ![j] = "not_started"]
       \/ /\ status_json' \in {status_json, [status_json EXCEPT ![j] = File(<<>>)]}
          /\ status_log' = status_log
          /\ returned' = returned
          /\ pc' = [pc EXCEPT ![j] = "not_persisted"]

\* convert_ppt with a fresh uuid4 id j.
convert_ppt(j, d) ==
    /\ pc[j] = "none"
    /\ j \notin DOMAIN jobs
    /\ submit(j, d)
    /\ UNCHANGED <<call, ret, exc, escaped, pipeline, export, media,
                   credentials, response>>

(* ------------------------------- worker -------------------------------- *)
\* run_conversion_async: pythoncom.CoInitialize(), before the try statement.
CoInitialize(j) ==
    /\ pc[j] = "CoInitialize"
    /\ \/ /\ pc' = [pc EXCEPT ![j] = "run_pipeline"]
          /\ escaped' = escaped
       \/ /\ pc' = [pc EXCEPT ![j] = "exited"]
          /\ escaped' = [escaped EXCEPT ![j] = TRUE]
    /\ UNCHANGED <<store, call, ret, exc, pipeline, export, media,
                   credentials, deck, response>>

\* run_pipeline without its credentials check: the first report follows
\* whether or not the key and the region are set.
run_pipeline_begin_unchecked(j) ==
    /\ pc[j] = "run_pipeline"
    /\ Goto(j, "report_notes")
    /\ UNCHANGED <<store, call, ret, escaped, pipeline, export, media,
                   credentials, deck, response>>

\* run_pipeline up to the credentials check: out_dir.mkdir(exist_ok=True)
\* finds the job directory convert_ppt made, the settings are normalised,
\* and absent credentials raise ValueError before the first report.
run_pipeline_begin(j) ==
    /\ pc[j] = "run_pipeline"
    /\ IF credentials
       THEN Goto(j, "report_notes")
       ELSE Raise(j, "Missing Azure TTS credentials")
    /\ UNCHANGED <<store, call, ret, escaped, pipeline, export, media,
                   credentials, deck, response>>

\* The arguments on_progress passes to update_job for report(stage, progress,
\* message) at each checkpoint of run_pipeline.
ReportArgs(at) ==
    CASE at = "report_notes" ->
           [status |-> None, progress |-> Some(12),
            message |-> Some("Extracting slide notes"),
            kwargs |-> [stage |-> "notes"]]
      [] at = "report_tts" ->
           [status |-> None, progress |-> Some(35),
            message |-> Some("Generating Azure TTS from notes"),
            kwargs |-> [stage |-> "tts"]]
      [] at = "report_export" ->
           [status |-> None, progress |-> Some(60),
            message |-> Some("Exporting animated video via PowerPoint"),
            kwargs |-> [stage |-> "ppt_export"]]
      [] at = "report_mux" ->
           [status |-> None, progress |-> Some(85),
            message |-> Some("FFmpeg muxing"),
            kwargs |-> [stage |-> "mux"]]

\* The statement of run_pipeline that follows each report.
ReportNext(at) ==
    CASE at = "report_notes" -> "extract_slide_notes"
      [] at = "report_tts" -> "tts_loop"
      [] at = "report_export" -> "Dispatch"
      [] at = "report_mux" -> "concat"

\* run_pipeline: report(...) -> on_progress -> update_job
report(j) ==
    /\ pc[j] \in {"report_notes", "report_tts", "report_export", "report_mux"}
    /\ update_job_enter(j, ReportArgs(pc[j]), ReportNext(pc[j]))
    /\ UNCHANGED <<pipeline, export, media, credentials, deck, response>>

\* run_pipeline: extract_slide_notes(ppt_path) and slide_notes; the reader
\* raises on a file it cannot open.
run_pipeline_notes(j) ==
    /\ pc[j] = "extract_slide_notes"
    /\ \/ /\ slide_notes' = [slide_notes EXCEPT ![j] =
                [i \in DOMAIN extract_slide_notes(deck[j]) |->
                    <<extract_slide_notes(deck[j])[i].slide,
                      extract_slide_notes(deck[j])[i].text>>]]
          /\ slide_i' = [slide_i EXCEPT ![j] = 1]
          /\ Goto(j, "report_tts")
       \/ /\ slide_notes' = slide_notes
          /\ slide_i' = slide_i
          /\ Raise(j, "PackageNotFoundError")
    /\ UNCHANGED <<store, call, ret, escaped, audio_files, tts_requests, audio_durations,
                   export, media, credentials, deck, response>>

\* run_pipeline: the head of `for i, text in slide_notes` and
\* `if not text: continue`.
tts_loop(j) ==
    /\ pc[j] = "tts_loop"
    /\ IF slide_i[j] > Len(slide_notes[j])
       THEN /\ Goto(j, "tts_check")
            /\ slide_i' = slide_i
       ELSE IF slide_notes[j][slide_i[j]][2] = <<>>
       THEN /\ Goto(j, "tts_loop")
            /\ slide_i' = [slide_i EXCEPT ![j] = @ + 1]
       ELSE /\ Goto(j, "tts_post")
            /\ slide_i' = slide_i
    /\ UNCHANGED <<store, call, ret, escaped, slide_notes, audio_files,
                   tts_requests, audio_durations, export, media, credentials, deck, response>>

\* The request were it sent once more after a failure before the raise.
tts_post_resent(j) ==
    /\ pc[j] = "tts_post"
    /\ \/ /\ tts_requests' = [tts_requests EXCEPT
                                ![j] = Append(@, slide_notes[j][slide_i[j]][1])]
          /\ Goto(j, "tts_store")
       \/ /\ tts_requests' = [tts_requests EXCEPT
                                ![j] = @ \o <<slide_notes[j][slide_i[j]][1],
                                              slide_notes[j][slide_i[j]][1]>>]
          /\ Raise(j, "HTTPError")
    /\ UNCHANGED <<store, call, ret, escaped, slide_notes, slide_i, audio_files,
                   audio_durations, export, media, credentials, deck, response>>

\* run_pipeline: safe_unlink(out_mp3) returns at once, the job directory
\* being new and the file absent; then requests.post, which raises on a
\* transport error, and r.raise_for_status(), which raises on an error
\* response.
tts_post(j) ==
    /\ pc[j] = "tts_post"
    /\ tts_requests' = [tts_requests EXCEPT
                          ![j] = Append(@, slide_notes[j][slide_i[j]][1])]
    /\ \/ Goto(j, "tts_store")
       \/ Raise(j, "HTTPError")
    /\ UNCHANGED <<store, call, ret, escaped, slide_notes, slide_i, audio_files,
                   audio_durations, export, media, credentials, deck, response>>

\* run_pipeline: out_mp3.write_bytes, audio_files.append and
\* probe_duration_seconds(out_mp3), then the next slide.
tts_store(j) ==
    /\ pc[j] = "tts_store"
    /\ \/ /\ audio_files' = audio_files
          /\ slide_i' = slide_i
          /\ audio_durations' = audio_durations
          /\ Raise(j, "OSError: slide mp3")
       \/ /\ audio_files' = [audio_files EXCEPT
                               ![j] = Append(@, slide_notes[j][slide_i[j]][1])]
          /\ \/ /\ slide_i' = [slide_i EXCEPT ![j] = @ + 1]
                /\ \E seconds \in Durations :
                      audio_durations' = [audio_durations EXCEPT ![j] =
                          (slide_notes[j][slide_i[j]][1] :> seconds) @@ @]
                /\ Goto(j, "tts_loop")
             \/ /\ slide_i' = slide_i
                /\ audio_durations' = audio_durations
                /\ Raise(j, "CalledProcessError: ffprobe")
    /\ UNCHANGED <<store, call, ret, escaped, slide_notes, tts_requests,
                   export, media, credentials, deck, response>>

\* run_pipeline: `if not audio_files: raise ValueError(...)`
tts_check(j) ==
    /\ pc[j] = "tts_check"
    /\ IF audio_files[j] = <<>>
       THEN Raise(j, "No speaker notes found for TTS")
       ELSE Goto(j, "report_export")
    /\ UNCHANGED <<store, call, ret, escaped, pipeline, export, media,
                   credentials, deck, response>>

(* ------------------------------- export -------------------------------- *)
\* safe_close_presentation(presentation); safe_quit_powerpoint(ppt): both
\* swallow every exception of the host.
close_and_quit(j) ==
    /\ presentation' = [presentation EXCEPT ![j] = "closed"]
    /\ ppt' = [ppt EXCEPT ![j] = "quit"]

\* safe_unlink(path): returns at once when the file does not exist; a file
\* that exists is removed, or raises PermissionError when it stays locked.
safe_unlink(file) == IF file.exists THEN {"removed", "locked"} ELSE {"removed"}

\* run_pipeline: win32com.client.Dispatch("PowerPoint.Application")
Dispatch(j) ==
    /\ pc[j] = "Dispatch"
    /\ \/ /\ ppt' = [ppt EXCEPT ![j] = "running"]
          /\ Goto(j, "Open")
       \/ /\ ppt' = ppt
          /\ Raise(j, "com_error: Dispatch")
    /\ UNCHANGED <<store, call, ret, escaped, pipeline, presentation,
                   video_status, save_as_calls, timings, video_raw, media, credentials, deck, response>>

\* DEFAULT_SILENCE_HEAD, DEFAULT_SILENCE_TAIL and the seconds a slide without
\* narration is shown, `audio_durations.get(slide_index, 2.0)`.
DEFAULT_SILENCE_HEAD == 0
DEFAULT_SILENCE_TAIL == 0
NoNarrationSeconds == 2

\* The duration were the measured length of the narration left out of it.
AdvanceTime_unmeasured(durations, slide_index) ==
    NoNarrationSeconds + DEFAULT_SILENCE_HEAD + DEFAULT_SILENCE_TAIL

\* run_pipeline: `duration = audio_durations.get(slide_index, 2.0)
\* + DEFAULT_SILENCE_HEAD + DEFAULT_SILENCE_TAIL`
AdvanceTime(durations, slide_index) ==
    (IF slide_index \in DOMAIN durations THEN durations[slide_index]
     ELSE NoNarrationSeconds)
        + DEFAULT_SILENCE_HEAD + DEFAULT_SILENCE_TAIL

\* The AdvanceTime the timing loop sets on the slides 1..n of a document.
SlideTimings(durations, n) == [i \in 1..n |-> AdvanceTime(durations, i)]

\* The AdvanceTime of the slides of the uploaded deck d: none is timed.
Untimed(d) == [i \in 1..Len(d) |-> 0]

\* run_pipeline: ppt.Presentations.Open, of the deck and later of the copy;
\* the document opened holds the timings of its file.
Open(j) ==
    /\ pc[j] \in {"Open", "Reopen"}
    /\ \/ /\ presentation' = [presentation EXCEPT ![j] = "open"]
          /\ timings' = [timings EXCEPT ![j].document =
                            IF pc[j] = "Open" THEN Untimed(deck[j])
                            ELSE timings[j].tmp_pptx.content,
                                        ![j].saved = TRUE]
          /\ Goto(j, IF pc[j] = "Open" THEN "timings" ELSE "timings_copy")
       \/ /\ presentation' = presentation
          /\ timings' = timings
          /\ Raise(j, "com_error: Open")
    /\ UNCHANGED <<store, call, ret, escaped, pipeline, ppt,
                   video_status, save_as_calls, video_raw, media, credentials, deck, response>>

\* run_pipeline: the loop that sets each slide's transition and the slide
\* show settings, on the deck and again on the reopened copy.
\* A raise of the host inside the loop leaves the slides before it timed;
\* a document that was written to is no longer presentation.Saved.
apply_timings(j) ==
    /\ pc[j] \in {"timings", "timings_copy"}
    /\ LET new == SlideTimings(audio_durations[j], Len(timings[j].document))
       IN \/ /\ timings' = [timings EXCEPT ![j].document = new,
                                             ![j].applied = Append(@, new),
                                             ![j].saved = FALSE]
             /\ Goto(j, IF pc[j] = "timings" THEN "SaveCopyAs" ELSE "Save")
          \/ /\ \E k \in 0..Len(new) :
                   timings' = [timings EXCEPT ![j].document =
                                  [i \in 1..Len(new) |-> IF i <= k THEN new[i] ELSE @[i]],
                                              ![j].saved = FALSE]
             /\ Raise(j, "com_error: SlideShowTransition")
    /\ UNCHANGED <<store, call, ret, escaped, pipeline, ppt, presentation,
                   video_status, save_as_calls, video_raw, media,
                   credentials, deck, response>>

\* run_pipeline: presentation.SaveCopyAs(tmp_pptx); on a raise the document
\* is closed and the host quit before RuntimeError; otherwise the document is
\* closed to reopen the copy.
SaveCopyAs(j) ==
    /\ pc[j] = "SaveCopyAs"
    /\ \/ /\ presentation' = [presentation EXCEPT ![j] = "closed"]
          /\ ppt' = ppt
          /\ timings' = [timings EXCEPT ![j].tmp_pptx = File(timings[j].document)]
          /\ Goto(j, "Reopen")
       \/ /\ close_and_quit(j)
          /\ timings' = timings
          /\ Raise(j, "PowerPoint could not save a temp copy")
    /\ UNCHANGED <<store, call, ret, escaped, pipeline,
                   video_status, save_as_calls, video_raw, media, credentials, deck, response>>

\* run_pipeline: presentation.Save(), which writes the open document to
\* tmp_pptx and sets its presentation.Saved.
Save(j) ==
    /\ pc[j] = "Save"
    /\ \/ /\ timings' = [timings EXCEPT ![j].tmp_pptx = File(timings[j].document),
                                        ![j].saved = TRUE]
          /\ Goto(j, "unlink_stale")
       \/ /\ timings' = timings
          /\ Raise(j, "com_error: Save")
    /\ UNCHANGED <<store, call, ret, escaped, pipeline, ppt, presentation,
                   video_status, save_as_calls, video_raw, media,
                   credentials, deck, response>>

\* run_pipeline: safe_unlink of video_raw, narration and final_video.
unlink_stale(j) ==
    /\ pc[j] = "unlink_stale"
    /\ \E r \in safe_unlink(video_raw[j]) \cup safe_unlink(narration[j])
                  \cup safe_unlink(final_mp4[j]) :
          IF r = "locked"
          THEN /\ UNCHANGED <<video_raw, narration, final_mp4>>
               /\ Raise(j, "PermissionError: Could not delete locked file")
          ELSE /\ video_raw' = [video_raw EXCEPT ![j] = NoFile]
               /\ narration' = [narration EXCEPT ![j] = NoFile]
               /\ final_mp4' = [final_mp4 EXCEPT ![j] = NoFile]
               /\ Goto(j, "CreateVideo")
    /\ UNCHANGED <<store, call, ret, escaped, pipeline, ppt, presentation,
                   video_status, save_as_calls, timings, credentials, deck, response>>

\* run_pipeline: presentation.CreateVideo(video_raw, ...), which starts the
\* export in the host and returns.
CreateVideo(j) ==
    /\ pc[j] = "CreateVideo"
    /\ \/ /\ video_status' = [video_status EXCEPT ![j] = 1]
          /\ Goto(j, "CreateVideoStatus")
       \/ /\ video_status' = video_status
          /\ Raise(j, "com_error: CreateVideo")
    /\ UNCHANGED <<store, call, ret, escaped, pipeline, ppt, presentation,
                   save_as_calls, timings, video_raw, media, credentials, deck, response>>

\* run_pipeline: `while status == 1: sleep; status = CreateVideoStatus`.
\* The host answers 1 (in progress), 3 (done) or 4 (failed); when it is done
\* the file may be written, still empty or missing, when it failed the file
\* is missing or empty.
CreateVideoStatus(j) ==
    /\ pc[j] = "CreateVideoStatus"
    /\ \/ /\ video_status' = [video_status EXCEPT ![j] = 1]
          /\ video_raw' = video_raw
          /\ Goto(j, "CreateVideoStatus")
       \/ /\ video_status' = [video_status EXCEPT ![j] = 3]
          /\ video_raw' \in {[video_raw EXCEPT ![j] = f] :
                                f \in {NoFile, EmptyMedia, WholeMedia}}
          /\ Goto(j, "exists")
       \/ /\ video_status' = [video_status EXCEPT ![j] = 4]
          /\ video_raw' \in {[video_raw EXCEPT ![j] = f] : f \in {NoFile, EmptyMedia}}
          /\ Goto(j, "SaveAs")
    /\ UNCHANGED <<store, call, ret, escaped, pipeline, ppt, presentation,
                   save_as_calls, timings, media, credentials, deck, response>>

\* The first fallback were `status = 3` missing after its poll found the
\* file: the check of the status that follows raises although the file is
\* there.
SaveAs_status_kept(j) ==
    /\ pc[j] = "SaveAs"
    /\ \/ /\ video_raw' \in {[video_raw EXCEPT ![j] = f] :
                f \in IF video_raw[j].exists THEN {video_raw[j], WholeMedia}
                      ELSE {EmptyMedia, WholeMedia}}
          /\ video_status' = video_status
          /\ close_and_quit(j)
          /\ Raise(j, "PowerPoint failed to render video")
       \/ /\ UNCHANGED <<video_raw, video_status>>
          /\ close_and_quit(j)
          /\ Raise(j, "PowerPoint failed to render video. SaveAs fallback also failed")
    /\ save_as_calls' = [save_as_calls EXCEPT ![j] = Append(@, "SaveAs")]
    /\ UNCHANGED <<store, call, ret, escaped, pipeline, timings, media,
                   credentials, deck, response>>

\* run_pipeline, `if status != 3`: presentation.SaveAs(video_raw, 39) and the
\* poll of video_raw.exists(); the file is found and status becomes 3, or it
\* is not found and the document is closed and the host quit before
\* RuntimeError, as they are when SaveAs raises.
SaveAs(j) ==
    /\ pc[j] = "SaveAs"
    /\ \/ /\ video_raw' \in {[video_raw EXCEPT ![j] = f] :
                f \in IF video_raw[j].exists THEN {video_raw[j], WholeMedia}
                      ELSE {EmptyMedia, WholeMedia}}
          /\ video_status' = [video_status EXCEPT ![j] = 3]
          /\ UNCHANGED <<ppt, presentation>>
          /\ Goto(j, "exists")
       \/ /\ ~video_raw[j].exists
          /\ UNCHANGED <<video_raw, video_status>>
          /\ close_and_quit(j)
          /\ Raise(j, "PowerPoint failed to render video")
       \/ /\ UNCHANGED <<video_raw, video_status>>
          /\ close_and_quit(j)
          /\ Raise(j, "PowerPoint failed to render video. SaveAs fallback also failed")
    /\ save_as_calls' = [save_as_calls EXCEPT ![j] = Append(@, "SaveAs")]
    /\ UNCHANGED <<store, call, ret, escaped, pipeline, timings, media,
                   credentials, deck, response>>

\* run_pipeline: `if not video_raw.exists(): raise FileNotFoundError`
exists(j) ==
    /\ pc[j] = "exists"
    /\ IF video_raw[j].exists
       THEN Goto(j, "st_size")
       ELSE Raise(j, "PowerPoint did not produce the video file")
    /\ UNCHANGED <<store, call, ret, escaped, pipeline, export, media,
                   credentials, deck, response>>

\* The size poll were its else branch to give up at once: a file still empty
\* after the loop closes the document and quits the host before
\* FileNotFoundError, without a second SaveAs.
st_size_no_retry(j) ==
    /\ pc[j] = "st_size"
    /\ \/ /\ video_raw' = [video_raw EXCEPT ![j] = WholeMedia]
          /\ UNCHANGED <<ppt, presentation>>
          /\ Goto(j, "wait_for_readable")
       \/ /\ video_raw[j] # WholeMedia
          /\ video_raw' = video_raw
          /\ close_and_quit(j)
          /\ Raise(j, "PowerPoint produced an empty/locked file")
    /\ UNCHANGED <<store, call, ret, escaped, pipeline,
                   video_status, save_as_calls, timings, media, credentials, deck, response>>

\* run_pipeline: the poll of video_raw.stat().st_size; the host may finish
\* writing the file while the loop waits; a file still empty after the loop
\* leads to the second SaveAs.
st_size(j) ==
    /\ pc[j] = "st_size"
    /\ \/ /\ video_raw' = [video_raw EXCEPT ![j] = WholeMedia]
          /\ Goto(j, "wait_for_readable")
       \/ /\ video_raw[j] # WholeMedia
          /\ video_raw' = video_raw
          /\ Goto(j, "SaveAs_retry")
    /\ UNCHANGED <<store, call, ret, escaped, pipeline, ppt, presentation,
                   video_status, save_as_calls, timings, media, credentials, deck, response>>

\* run_pipeline, the else of the size poll: presentation.SaveAs once more and
\* the second poll of st_size; a raise, or a file still empty, closes the
\* document and quits the host before FileNotFoundError.
SaveAs_retry(j) ==
    /\ pc[j] = "SaveAs_retry"
    /\ \/ /\ video_raw' = [video_raw EXCEPT ![j] = WholeMedia]
          /\ UNCHANGED <<ppt, presentation>>
          /\ Goto(j, "wait_for_readable")
       \/ /\ video_raw' = video_raw
          /\ close_and_quit(j)
          /\ Raise(j, "PowerPoint produced an empty/locked file")
       \/ /\ video_raw' = video_raw
          /\ close_and_quit(j)
          /\ Raise(j, "PowerPoint produced an empty/locked file and SaveAs retry failed")
    /\ save_as_calls' = [save_as_calls EXCEPT ![j] = Append(@, "SaveAs_retry")]
    /\ UNCHANGED <<store, call, ret, escaped, pipeline, video_status, timings, media,
                   credentials, deck, response>>

\* run_pipeline: wait_for_readable(video_raw), which raises FileNotFoundError
\* when the file cannot be opened within its attempts; then the probe of the
\* rendered duration, whose failure is ignored; then
\* safe_close_presentation(presentation) and safe_quit_powerpoint(ppt).
wait_for_readable(j) ==
    /\ pc[j] = "wait_for_readable"
    /\ \/ /\ close_and_quit(j)
          /\ Goto(j, "report_mux")
       \/ /\ UNCHANGED <<ppt, presentation>>
          /\ Raise(j, "File not readable (locked?)")
    /\ UNCHANGED <<store, call, ret, escaped, pipeline, video_status, save_as_calls, timings, video_raw,
                   media, credentials, deck, response>>

(* -------------------------------- mux ---------------------------------- *)
\* run_pipeline: the manifest audio_list.txt, resolve_media_tool("ffmpeg")
\* and the ffmpeg concat run with check=True, then
\* `if not narration.exists(): raise FileNotFoundError`.
concat(j) ==
    /\ pc[j] = "concat"
    /\ \/ /\ narration' = [narration EXCEPT ![j] = WholeMedia]
          /\ Goto(j, "mux")
       \/ /\ narration' = narration
          /\ Raise(j, "Narration not found")
       \/ /\ narration' \in {narration, [narration EXCEPT ![j] = PartialMedia]}
          /\ Raise(j, "CalledProcessError: ffmpeg concat")
    /\ UNCHANGED <<store, call, ret, escaped, pipeline, export, final_mp4,
                   credentials, deck, response>>

\* The mux run without check=True: run_pipeline returns its result although
\* ffmpeg exited non-zero before it wrote anything.
mux_unchecked(j) ==
    /\ pc[j] = "mux"
    /\ \/ /\ final_mp4' = [final_mp4 EXCEPT ![j] = PartialMedia]
          /\ Goto(j, "mux_wait")
       \/ /\ final_mp4' = final_mp4
          /\ Goto(j, "return")
    /\ UNCHANGED <<store, call, ret, escaped, pipeline, export, narration,
                   credentials, deck, response>>

\* run_pipeline: the ffmpeg mux run starts; ffmpeg opens its inputs and
\* creates final.mp4, or exits non-zero before it wrote anything.
mux(j) ==
    /\ pc[j] = "mux"
    /\ \/ /\ final_mp4' = [final_mp4 EXCEPT ![j] = PartialMedia]
          /\ Goto(j, "mux_wait")
       \/ /\ final_mp4' = final_mp4
          /\ Raise(j, "CalledProcessError: ffmpeg mux")
    /\ UNCHANGED <<store, call, ret, escaped, pipeline, export, narration,
                   credentials, deck, response>>

\* run_pipeline: subprocess.run(..., check=True) returns when ffmpeg exits:
\* with 0 and final.mp4 written, or non-zero and CalledProcessError.
mux_exit(j) ==
    /\ pc[j] = "mux_wait"
    /\ \/ /\ final_mp4' = [final_mp4 EXCEPT ![j] = WholeMedia]
          /\ Goto(j, "return")
       \/ /\ final_mp4' = final_mp4
          /\ Raise(j, "CalledProcessError: ffmpeg mux")
    /\ UNCHANGED <<store, call, ret, escaped, pipeline, export, narration,
                   credentials, deck, response>>

(* ----------------------- worker: terminal updates ----------------------- *)
\* run_conversion_async: the update_job call after run_pipeline returned.
CompletedArgs ==
    [status |-> Some("completed"), progress |-> Some(100),
     message |-> Some("Video ready for download"),
     kwargs |-> [output |-> Some("final.mp4"), final_video_path |-> "final.mp4",
                 telemetry |-> {"tts_seconds", "ppt_export_seconds",
                                "mux_seconds", "total_seconds"}]]

\* The handler's call were it to reset the progress of a failed job.
ErrorArgs_progress_reset(text) ==
    [status |-> Some("error"), progress |-> Some(0),
     message |-> Some("Conversion failed: " \o text),
     kwargs |-> [output |-> None]]

\* run_conversion_async: the update_job call of `except Exception as exc`.
ErrorArgs(text) ==
    [status |-> Some("error"), progress |-> Some(100),
     message |-> Some("Conversion failed: " \o text),
     kwargs |-> [output |-> None]]

\* run_conversion_async: run_pipeline returned its result.
run_conversion_async_completed(j) ==
    /\ pc[j] = "return"
    /\ update_job_enter(j, CompletedArgs, "finally")
    /\ UNCHANGED <<pipeline, export, media, credentials, deck, response>>

\* run_conversion_async: the handler of an exception raised inside the try.
run_conversion_async_except(j) ==
    /\ pc[j] = "except"
    /\ update_job_enter(j, ErrorArgs(exc[j]), "finally")
    /\ UNCHANGED <<pipeline, export, media, credentials, deck, response>>

\* run_conversion_async: `finally: pythoncom.CoUninitialize()`; the thread
\* ends, with an exception when the handler raised or CoUninitialize raises.
CoUninitialize(j) ==
    /\ pc[j] \in {"finally", "finally_raise"}
    /\ pc' = [pc EXCEPT ![j] = "exited"]
    /\ escaped' \in {[escaped EXCEPT ![j] = b] :
                        b \in IF pc[j] = "finally_raise" THEN {TRUE} ELSE BOOLEAN}
    /\ UNCHANGED <<store, call, ret, exc, pipeline, export, media,
                   credentials, deck, response>>

(* ------------------------------ endpoints ------------------------------ *)
\* load_job(job_id) as get_status calls it: the in-memory record, else the
\* persisted document parsed and cached, else nothing; json.loads raises on a
\* document that is not whole.
load_job(j) ==
    IF j \in DOMAIN jobs THEN [code |-> 200, body |-> jobs[j]]
    ELSE IF ~status_json[j].exists THEN [code |-> 404]
    ELSE IF status_json[j].content = <<>> THEN [code |-> 500]
    ELSE [code |-> 200, body |-> JsonLoads(status_json[j].content[1])]

\* get_status(job_id)
get_status(j) ==
    /\ response' = [endpoint |-> "status", job |-> j] @@ load_job(j)
    /\ jobs' = IF j \notin DOMAIN jobs /\ load_job(j).code = 200
               THEN (j :> load_job(j).body) @@ jobs
               ELSE jobs
    /\ UNCHANGED <<status_json, status_log, clock, returned, worker, pipeline, export,
                   media, credentials, deck>>

\* download_video(job_id): the file when final.mp4 exists, else the
\* "Video not found" body.
download_video(j) ==
    /\ response' = IF final_mp4[j].exists
                   THEN [endpoint |-> "download", job |-> j, body |-> "file",
                         content |-> final_mp4[j].content]
                   ELSE [endpoint |-> "download", job |-> j, body |-> "not ready"]
    /\ UNCHANGED <<store, worker, pipeline, export, media, credentials, deck>>

\* list_recent_jobs: the job directories whose status.json exists and parses.
Readable == {j \in JobIds : status_json[j].exists /\ status_json[j].content # <<>>}

\* list_recent_jobs: the directories skipped on json.JSONDecodeError.
Skipped == {j \in JobIds : status_json[j].exists /\ status_json[j].content = <<>>}

\* The sort key of list_recent_jobs.
SortKey(doc) ==
    IF "updated_at" \in DOMAIN doc THEN doc.updated_at
    ELSE IF "created_at" \in DOMAIN doc THEN doc.created_at
    ELSE 0

\* records.sort(key=..., reverse=True) of the documents of the directories S.
RECURSIVE SortedRecords(_)
SortedRecords(S) ==
    IF S = {} THEN <<>>
    ELSE LET j == CHOOSE x \in S :
                    \A y \in S : SortKey(JsonLoads(status_json[x].content[1]))
                                   >= SortKey(JsonLoads(status_json[y].content[1]))
         IN <<JsonLoads(status_json[j].content[1])>> \o SortedRecords(S \ {j})

\* records[:limit]
Slice(records, limit) ==
    SubSeq(records, 1, IF limit < Len(records) THEN limit ELSE Len(records))

\* list_recent_jobs(limit), as history_api and history_page call it: the
\* listing; or, when read_text raises on one of the documents (OSError, or
\* UnicodeDecodeError: neither is a json.JSONDecodeError), the exception
\* leaves list_recent_jobs and the request fails.
list_recent_jobs(limit) ==
    /\ \/ response' = [endpoint |-> "history", code |-> 200,
                       jobs |-> Slice(SortedRecords(Readable), limit),
                       skipped |-> Skipped]
       \/ /\ \E j \in JobIds : status_json[j].exists
          /\ response' = [endpoint |-> "history", code |-> 500]
    /\ UNCHANGED <<store, worker, pipeline, export, media, credentials, deck>>

(* --------------------------- specification ----------------------------- *)
Next ==
    \/ \E j \in JobIds, d \in Decks : convert_ppt(j, d)
    \/ \E j \in JobIds :
        \/ CoInitialize(j)
        \/ run_pipeline_begin(j)
        \/ report(j)
        \/ update_job_progress(j)
        \/ update_job_message(j)
        \/ update_job_kwargs(j)
        \/ update_job_stamp(j)
        \/ persist_status_open(j)
        \/ persist_status_write(j)
        \/ run_pipeline_notes(j)
        \/ tts_loop(j)
        \/ tts_post(j)
        \/ tts_store(j)
        \/ tts_check(j)
        \/ Dispatch(j)
        \/ Open(j)
        \/ apply_timings(j)
        \/ SaveCopyAs(j)
        \/ Save(j)
        \/ unlink_stale(j)
        \/ CreateVideo(j)
        \/ CreateVideoStatus(j)
        \/ SaveAs(j)
        \/ exists(j)
        \/ st_size(j)
        \/ SaveAs_retry(j)
        \/ wait_for_readable(j)
        \/ concat(j)
        \/ mux(j)
        \/ mux_exit(j)
        \/ run_conversion_async_completed(j)
        \/ run_conversion_async_except(j)
        \/ CoUninitialize(j)
        \/ get_status(j)
        \/ download_video(j)
    \/ list_recent_jobs(25)

Spec == Init /\ [][Next]_vars

(* --------------------------- thread scheduling -------------------------- *)
\* A step of the worker thread of job j.
Worker(j) ==
    \/ CoInitialize(j)
    \/ run_pipeline_begin(j)
    \/ report(j)
    \/ update_job_progress(j)
    \/ update_job_message(j)
    \/ update_job_kwargs(j)
    \/ update_job_stamp(j)
    \/ persist_status_open(j)
    \/ persist_status_write(j)
    \/ run_pipeline_notes(j)
    \/ tts_loop(j)
    \/ tts_post(j)
    \/ tts_store(j)
    \/ tts_check(j)
    \/ Dispatch(j)
    \/ Open(j)
    \/ apply_timings(j)
    \/ SaveCopyAs(j)
    \/ Save(j)
    \/ unlink_stale(j)
    \/ CreateVideo(j)
    \/ CreateVideoStatus(j)
    \/ SaveAs(j)
    \/ exists(j)
    \/ st_size(j)
    \/ SaveAs_retry(j)
    \/ wait_for_readable(j)
    \/ concat(j)
    \/ mux(j)
    \/ mux_exit(j)
    \/ run_conversion_async_completed(j)
    \/ run_conversion_async_except(j)
    \/ CoUninitialize(j)

\* The export host ends the export: CreateVideoStatus reads a status other
\* than 1.
ExportEnds(j) == CreateVideoStatus(j) /\ video_status'[j] # 1

\* A started thread that can take a step is scheduled, every call it makes
\* returns or raises, and the export host does not stay in progress for ever.
Fairness ==
    \A j \in JobIds : WF_vars(Worker(j)) /\ WF_vars(ExportEnds(j))

\* The service under that scheduling.
SpecFair == Spec /\ Fairness

(* ------------------------- process restart ----------------------------- *)
\* The service process ends and a new one starts: `jobs = {}` at import, the
\* worker threads (daemon threads) are gone with their locals wherever they
\* stood, and what is on disk and in the export host stays as it was.
Restart ==
    /\ jobs' = <<>>
    /\ pc' = [j \in JobIds |-> IF pc[j] = "none" THEN "none" ELSE "killed"]
    /\ call' = [j \in JobIds |-> NoCall]
    /\ ret' = [j \in JobIds |-> "none"]
    /\ exc' = [j \in JobIds |-> ""]
    /\ slide_notes' = [j \in JobIds |-> <<>>]
    /\ slide_i' = [j \in JobIds |-> 0]
    /\ audio_files' = [j \in JobIds |-> <<>>]
    /\ audio_durations' = [j \in JobIds |-> <<>>]
    /\ response' = NoResponse
    /\ UNCHANGED <<status_json, status_log, clock, returned, escaped,
                   tts_requests, export, media, credentials, deck>>

\* The service with restarts of its process.
NextRestart == Next \/ Restart

SpecRestart == Init /\ [][NextRestart]_vars

(* ------------------- update_job on any arguments ---------------------- *)
\* Arguments of update_job: each of status, progress and message absent
\* (None), empty or set, and keyword fields absent, None or set.
UpdateArgs ==
    [status : {None, Some(""), Some("completed"), Some("error")},
     progress : {None, Some(0), Some(100)},
     message : {None, Some(""), Some("Conversion failed")},
     kwargs : {<<>>, [output |-> None], [output |-> Some("final.mp4")],
               [stage |-> "mux"], [stage |-> "mux", output |-> None]}]

\* The record of job j after its reports up to the one before the mux.
Reported(j) ==
    update_job(
        update_job(
            update_job(
                update_job(NewJob(j, 1, 2), ReportArgs("report_notes"), 3),
                ReportArgs("report_tts"), 4),
            ReportArgs("report_export"), 5),
        ReportArgs("report_mux"), 6)

\* Records a job holds at three moments of a run on a deck of one slide with
\* notes: as convert_ppt created it, as the report before the mux left it,
\* and as the update of the completed run left it.
HeldRecords(j) ==
    {NewJob(j, 1, 2), Reported(j), update_job(Reported(j), CompletedArgs, 7)}

\* The state of the service when the call that left the record r has
\* returned, the worker of the job standing at the position at.
Held(records, at) ==
    \E r \in records :
        LET exported == r.stage = "mux"
            completed == r.status = "completed"
        IN /\ jobs = ("j1" :> r)
           /\ status_json = [j \in JobIds |-> File(<<JsonDumps(r)>>)]
           /\ returned = [j \in JobIds |-> Some(r)]
           /\ clock = r.updated_at + 1
           /\ status_log = [j \in JobIds |->
                 <<"Job created", "Saved PPT">>
                   \o (IF exported
                       THEN [i \in 1..4 |->
                               ReportArgs(<<"report_notes", "report_tts",
                                            "report_export", "report_mux">>[i]).message[1]]
                       ELSE <<>>)
                   \o (IF completed THEN <<CompletedArgs.message[1]>> ELSE <<>>)]
           /\ credentials \in (IF exported THEN {TRUE} ELSE BOOLEAN)
           /\ deck = [j \in JobIds |-> <<<<Blank, "a", Blank>>>>]
           /\ pc = [j \in JobIds |-> at]
           /\ ret = [j \in JobIds |-> "finally"]
           /\ exc = [j \in JobIds |-> ""]
           /\ escaped = [j \in JobIds |-> at = "exited" /\ ~completed]
           /\ slide_notes = [j \in JobIds |-> IF exported THEN <<<<1, <<"a">>>>>> ELSE <<>>]
           /\ slide_i = [j \in JobIds |-> IF exported THEN 2 ELSE 0]
           /\ audio_files = [j \in JobIds |-> IF exported THEN <<1>> ELSE <<>>]
           /\ tts_requests = [j \in JobIds |-> IF exported THEN <<1>> ELSE <<>>]
           /\ audio_durations = [j \in JobIds |->
                 IF exported THEN [i \in {1} |-> CHOOSE d \in Durations : TRUE] ELSE <<>>]
           /\ ppt = [j \in JobIds |-> IF exported THEN "quit" ELSE "none"]
           /\ presentation = [j \in JobIds |-> IF exported THEN "closed" ELSE "none"]
           /\ video_status = [j \in JobIds |-> IF exported THEN 3 ELSE 0]
           /\ save_as_calls = [j \in JobIds |-> <<>>]
           /\ timings = [j \in JobIds |->
                 IF exported
                 THEN LET t == [i \in {1} |-> CHOOSE d \in Durations : TRUE]
                      IN [applied |-> <<t, t>>, document |-> t, saved |-> TRUE,
                          tmp_pptx |-> File(t)]
                 ELSE NoTimings]
           /\ video_raw = [j \in JobIds |-> IF exported THEN WholeMedia ELSE NoFile]
           /\ narration = [j \in JobIds |-> IF completed THEN WholeMedia ELSE NoFile]
           /\ final_mp4 = [j \in JobIds |-> IF completed THEN WholeMedia ELSE NoFile]
           /\ response = NoResponse

\* The worker of a job is about to call update_job with any arguments.
InitUpdate ==
    /\ Held(HeldRecords("j1"), "update_job")
    /\ call \in [JobIds -> UpdateArgs]

\* One whole call update_job(j, **call[j]): it returns with the record
\* updated, logged and persisted; or append_log raises after the message was
\* set; or persist_status raises after the record was stamped, the document
\* left as it was or truncated.
update_job_call(j) ==
    /\ pc[j] = "update_job"
    /\ LET args == call[j]
           set == set_message(set_progress(set_status(jobs[j], args.status),
                                           args.progress), args.message)
           logged == args.message # None /\ args.message[1] # ""
           lines == IF logged THEN Append(status_log[j], args.message[1])
                    ELSE status_log[j]
       IN \/ /\ jobs' = [jobs EXCEPT ![j] = update_job(@, args, clock)]
             /\ clock' = clock + 1
             /\ status_log' = [status_log EXCEPT ![j] = lines]
             /\ status_json' = [status_json EXCEPT
                                  ![j] = File(<<JsonDumps(update_job(jobs[j], args, clock))>>)]
             /\ returned' = [returned EXCEPT ![j] = Some(update_job(jobs[j], args, clock))]
             /\ pc' = [pc EXCEPT ![j] = ret[j]]
          \/ /\ logged
             /\ jobs' = [jobs EXCEPT ![j] = set]
             /\ UNCHANGED <<clock, status_log, status_json, returned>>
             /\ pc' = [pc EXCEPT ![j] = "finally_raise"]
          \/ /\ jobs' = [jobs EXCEPT ![j] = update_job(@, args, clock)]
             /\ clock' = clock + 1
             /\ status_log' = [status_log EXCEPT ![j] = lines]
             /\ status_json' \in {status_json, [status_json EXCEPT ![j] = File(<<>>)]}
             /\ returned' = returned
             /\ pc' = [pc EXCEPT ![j] = "finally_raise"]
    /\ UNCHANGED <<call, ret, exc, escaped, pipeline, export, media,
                   credentials, deck, response>>

NextUpdate == \E j \in JobIds : update_job_call(j)

SpecUpdate == InitUpdate /\ [][NextUpdate]_vars

(* ------------- normalize_pipeline_settings on any input --------------- *)
\* The values a settings dict may hold under each key: None, and for the
\* texts empty, blank, padded and plain ones, for the numbers values below,
\* at, within, and above the limits.
SettingsValues ==
    [voice |-> {None, Some(<<>>), Some(<<Blank>>), Some(<<"a">>),
                Some(<<Blank, "a", Blank>>), Some(<<Blank, Blank, "a">>)},
     speaking_rate |-> {None, Some(<<Blank>>), Some(<<"+", "5", "%", Blank, Blank>>)},
     resolution |-> {None, Some(-1), Some(239), Some(240), Some(720),
                     Some(2160), Some(2161)},
     fps |-> {None, Some(0), Some(1), Some(24), Some(60), Some(61)},
     quality |-> {None, Some(-7), Some(1), Some(100), Some(101)}]

\* The settings dicts: any subset of the keys, each with any of its values.
\* The dict without keys stands for settings=None too.
SettingsInputs ==
    {[k \in K |-> full[k]] :
        full \in [voice : SettingsValues.voice,
                  speaking_rate : SettingsValues.speaking_rate,
                  resolution : SettingsValues.resolution,
                  fps : SettingsValues.fps,
                  quality : SettingsValues.quality],
        K \in SUBSET DOMAIN SettingsValues}

\* normalize_pipeline_settings is about to be called with any settings.
InitSettings ==
    /\ Started
    /\ response \in {[endpoint |-> "normalize_pipeline_settings", settings |-> s] :
                        s \in SettingsInputs}

\* The call normalize_pipeline_settings(settings) returns.
normalize_call ==
    /\ response.endpoint = "normalize_pipeline_settings"
    /\ "result" \notin DOMAIN response
    /\ response' = [endpoint |-> "normalize_pipeline_settings",
                    settings |-> response.settings,
                    result |-> normalize_pipeline_settings(response.settings)]
    /\ UNCHANGED <<store, worker, pipeline, export, media, credentials, deck>>

NextSettings == normalize_call

SpecSettings == InitSettings /\ [][NextSettings]_vars

(* ------------------------ an id drawn twice --------------------------- *)
\* convert_ppt when uuid4 returns the id j of a job whose worker has exited:
\* nothing in convert_ppt looks the id up, and the worker is a new thread.
convert_ppt_existing(j, d) ==
    /\ j \in DOMAIN jobs
    /\ pc[j] = "exited"
    /\ submit(j, d)
    /\ UNCHANGED <<call, ret, exc, escaped, pipeline, export, media,
                   credentials, response>>

\* A job whose worker has exited holds its record, the one convert_ppt
\* created or the one of a completed run.
InitExisting ==
    /\ Held({r \in HeldRecords("j1") : r.stage = "upload" \/ r.status = "completed"},
            "exited")
    /\ call = [j \in JobIds |-> NoCall]

NextExisting == \E j \in JobIds, d \in Decks : convert_ppt_existing(j, d)

\* The service when uuid4 returns an id it returned before.
SpecExisting == InitExisting /\ [][NextExisting]_vars

(* ------------------------------- claims -------------------------------- *)
\* The positions of the worker at which run_pipeline has been left, by its
\* return or by an exception.
LeftPipeline == {"return", "except"}

\* The positions a worker is at when update_job, or the creation of the
\* record in convert_ppt, has just returned.
Returned ==
    {ReportNext(a) : a \in {"report_notes", "report_tts", "report_export", "report_mux"}}
        \cup {"finally", "CoInitialize", "not_started"}

\* The deck has no slide whose notes are non-empty after trimming.
NoNotes(d) == \A i \in DOMAIN d : Strip(d[i]) = <<>>

\* C1: the status of a job changes only from processing to completed or to
\* error; a completed or error status is never changed by a later step.
C1_StatusOnlyForward ==
    [][\A j \in DOMAIN jobs :
          (j \in DOMAIN jobs' /\ jobs'[j].status # jobs[j].status)
              => /\ jobs[j].status = "processing"
                 /\ jobs'[j].status \in {"completed", "error"}]_vars

\* C2: the progress of a job's record never decreases, and of two status
\* reads of a job that follow each other the later never returns a lower
\* progress than the earlier.
C2_ProgressNeverDecreases ==
    [][/\ \A j \in DOMAIN jobs :
             j \in DOMAIN jobs' => jobs'[j].progress >= jobs[j].progress
       /\ (/\ response.endpoint = "status" /\ response.code = 200
           /\ response'.endpoint = "status" /\ response'.code = 200
           /\ response'.job = response.job)
              => response'.body.progress >= response.body.progress]_vars

\* C2 witness: a status read returned the progress of a mid-run report and
\* the job has since reached its terminal update.
C2_Witness ==
    /\ response.endpoint = "status" /\ response.code = 200
    /\ response.body.progress = 60
    /\ jobs[response.job].progress = 100
    /\ pc[response.job] = "exited"

\* C3: a worker that has exited let no exception leave the thread and did
\* not leave the job in processing; when a failure was raised the status is
\* error and the message carries the failure's text.
C3_FailureEndsInError ==
    \A j \in JobIds :
        pc[j] = "exited" =>
            /\ ~escaped[j]
            /\ jobs[j].status # "processing"
            /\ exc[j] # "" =>
                  /\ jobs[j].status = "error"
                  /\ jobs[j].message = "Conversion failed: " \o exc[j]

\* C4: when update_job has returned, and when convert_ppt has created the
\* record, status.json holds a whole document that reads back as the
\* in-memory record.
C4_DiskAgreesWithMemory ==
    \A j \in DOMAIN jobs :
        pc[j] \in Returned =>
            /\ status_json[j].exists
            /\ status_json[j].content # <<>>
            /\ JsonLoads(status_json[j].content[1]) = jobs[j]

\* C4 witness: the terminal update of a completed job has returned.
C4_Witness ==
    \E j \in DOMAIN jobs :
        /\ pc[j] = "finally"
        /\ jobs[j].status = "completed"
        /\ jobs[j].output = Some("final.mp4")

\* C5: once the export host has been started, run_pipeline is left only
\* after safe_close_presentation ran on the open document and
\* safe_quit_powerpoint on the host.
C5_HostReleasedOnEveryPath ==
    \A j \in JobIds :
        (pc[j] \in LeftPipeline /\ ppt[j] # "none")
            => ppt[j] = "quit" /\ presentation[j] # "open"

\* C6: download_video returns the file only for a job whose status is
\* completed.
C6_DownloadOnlyWhenCompleted ==
    [][\A j \in JobIds :
          (download_video(j) /\ response'.body = "file")
              => j \in DOMAIN jobs /\ jobs[j].status = "completed"]_vars

\* The status, stage, progress and message that the creation of the record
\* or one completed update_job call leaves together.
LeftByOneUpdate(r) ==
    \/ /\ r.status = "processing" /\ r.stage = "upload"
       /\ r.progress = 5 /\ r.message = "Saving PPT"
    \/ \E a \in {"report_notes", "report_tts", "report_export", "report_mux"} :
          /\ r.status = "processing"
          /\ r.stage = ReportArgs(a).kwargs.stage
          /\ r.progress = ReportArgs(a).progress[1]
          /\ r.message = ReportArgs(a).message[1]
    \/ /\ r.status = "completed" /\ r.stage = "mux"
       /\ r.progress = 100 /\ r.message = CompletedArgs.message[1]
    \/ /\ r.status = "error" /\ r.progress = 100
       /\ r.message \notin
            {"Saving PPT", CompletedArgs.message[1]}
                \cup {ReportArgs(a).message[1] :
                        a \in {"report_notes", "report_tts", "report_export", "report_mux"}}

\* C7: a status read returns the status, stage, progress and message of one
\* single completed update, or of the creation record.
C7_StatusReadIsOneUpdate ==
    (response.endpoint = "status" /\ response.code = 200)
        => LeftByOneUpdate(response.body)

\* C8: list_recent_jobs, run while persist_status rewrites a job's document,
\* reads a whole document of that job, never an empty one.
C8_PersistIsAtomic ==
    [][list_recent_jobs(25)
          => \A j \in JobIds :
                (pc[j] = "persist_status_write" /\ response'.code = 200)
                    => j \notin response'.skipped]_vars

\* C9: the final.mp4 of a job whose status is completed exists and is not
\* empty.
C9_CompletedHasOutput ==
    \A j \in DOMAIN jobs :
        jobs[j].status = "completed"
            => final_mp4[j].exists /\ final_mp4[j].content # "empty"

\* C9 witness: a job is completed and its worker has exited.
C9_Witness ==
    \E j \in DOMAIN jobs : jobs[j].status = "completed" /\ pc[j] = "exited"

\* C10: for a deck without notes no synthesis request is ever sent, and the
\* job's worker ends with the status error.
C10_NoNotesEndsInError ==
    \A j \in DOMAIN jobs :
        NoNotes(deck[j]) =>
            /\ tts_requests[j] = <<>>
            /\ pc[j] = "exited" => jobs[j].status = "error"

\* C11: when the credentials are absent as run_pipeline starts, no notes are
\* extracted, no synthesis request is sent, the export host is not started
\* and no media file is written, and the worker ends with the status error
\* and the message of the missing credentials.
C11_NoCredentialsNoExternalCall ==
    \A j \in JobIds :
        (~credentials /\ exc[j] # "") =>
            /\ exc[j] = "Missing Azure TTS credentials"
            /\ slide_i[j] = 0 /\ slide_notes[j] = <<>>
            /\ tts_requests[j] = <<>> /\ audio_files[j] = <<>>
            /\ ppt[j] = "none" /\ presentation[j] = "none"
            /\ ~video_raw[j].exists /\ ~narration[j].exists /\ ~final_mp4[j].exists
            /\ pc[j] = "exited" =>
                  /\ jobs[j].status = "error"
                  /\ jobs[j].message = "Conversion failed: Missing Azure TTS credentials"

\* C11 witness: a worker started run_pipeline without credentials and has
\* exited, the job in error.
C11_Witness ==
    \E j \in DOMAIN jobs :
        /\ ~credentials /\ pc[j] = "exited"
        /\ exc[j] = "Missing Azure TTS credentials"
        /\ jobs[j].status = "error"

\* The failures run_pipeline and the record updates can raise once the
\* exported video is in place: of the readability wait, the concatenation,
\* the mux and the writes of the record.
AfterExportFailures ==
    {"File not readable (locked?)", "Narration not found",
     "CalledProcessError: ffmpeg concat", "CalledProcessError: ffmpeg mux",
     "OSError: status.log", "OSError: status.json"}

\* C12: when the export did not end in success and the first fallback SaveAs
\* left a non-empty video_raw, the fallback raises nothing: the only failures
\* the worker can meet are those of the later steps, and a worker that met
\* none has set the status completed.
C12_FirstFallbackAbsorbed ==
    \A j \in JobIds :
        (save_as_calls[j] = <<"SaveAs">> /\ video_raw[j] = WholeMedia) =>
            /\ exc[j] \in {""} \cup AfterExportFailures
            /\ (pc[j] \in {"finally", "exited"} /\ exc[j] = "")
                  => jobs[j].status = "completed"

\* C12 witness: a job whose export needed the first fallback only is
\* completed and its worker has exited.
C12_Witness ==
    \E j \in DOMAIN jobs :
        /\ save_as_calls[j] = <<"SaveAs">>
        /\ video_raw[j] = WholeMedia
        /\ pc[j] = "exited" /\ exc[j] = ""
        /\ jobs[j].status = "completed"

\* C13: after a restart of the process, a status read of a job whose creation
\* or update_job call had returned before the restart finds its record, equal
\* to the in-memory record as that last returned call left it.
C13_RestartRoundTrip ==
    \A j \in JobIds :
        (/\ pc[j] = "killed" /\ returned[j] # None
         /\ response.endpoint = "status" /\ response.job = j)
            => response.code = 200 /\ response.body = returned[j][1]

\* C14 (as stated): update_job leaves unchanged every field passed as None,
\* be it status, progress, message or a keyword field such as output.
C14_NullFieldsUnchanged ==
    [][\A j \in DOMAIN jobs :
          update_job_call(j) =>
              /\ call[j].status = None => jobs'[j].status = jobs[j].status
              /\ call[j].progress = None => jobs'[j].progress = jobs[j].progress
              /\ call[j].message = None => jobs'[j].message = jobs[j].message
              /\ \A k \in DOMAIN call[j].kwargs :
                    IsNone(k, call[j].kwargs[k]) => jobs'[j][k] = jobs[j][k]]_vars

\* C14 (amended): update_job leaves the status unchanged when it is passed
\* None or empty, the progress when it is passed None and the message when it
\* is passed None or empty; a call that returns has written every keyword
\* field as it was passed, None included.
C14_NullArgumentsUnchanged ==
    [][\A j \in DOMAIN jobs :
          update_job_call(j) =>
              /\ call[j].status \in {None, Some("")} => jobs'[j].status = jobs[j].status
              /\ call[j].progress = None => jobs'[j].progress = jobs[j].progress
              /\ call[j].message \in {None, Some("")} => jobs'[j].message = jobs[j].message
              /\ returned' # returned =>
                    \A k \in DOMAIN call[j].kwargs :
                        jobs'[j][k] = call[j].kwargs[k]]_vars

\* C14 witness: update_job has returned on the record of a completed job with
\* no status, no progress and output=None: the status and the progress are
\* as they were and the output is None.
C14_Witness ==
    \E j \in DOMAIN jobs :
        /\ pc[j] = "finally"
        /\ call[j].status = None /\ call[j].progress = None
        /\ call[j].kwargs = [output |-> None]
        /\ jobs[j].status = "completed" /\ jobs[j].progress = 100
        /\ jobs[j].output = None

\* C15: the creation of a record under an id that already has one fails, no
\* worker being started for it, and leaves the record of that id as it was,
\* in memory and on disk.
C15_CreateKeepsExisting ==
    [][\A j \in DOMAIN jobs, d \in Decks :
          convert_ppt_existing(j, d) =>
              /\ pc'[j] # "CoInitialize"
              /\ jobs'[j] = jobs[j]
              /\ status_json'[j] = status_json[j]]_vars

\* C16: normalize_pipeline_settings applied to a record it returned returns
\* that record.
C16_NormalizeIdempotent ==
    (response.endpoint = "normalize_pipeline_settings" /\ "result" \in DOMAIN response)
        => normalize_pipeline_settings(response.result) = response.result

\* C16 witness: the call changed its input: a padded voice was stripped and a
\* resolution above the limit clamped.
C16_Witness ==
    /\ response.endpoint = "normalize_pipeline_settings"
    /\ "result" \in DOMAIN response
    /\ DOMAIN response.settings = DOMAIN DEFAULT_PIPELINE_SETTINGS
    /\ response.settings.voice = Some(<<Blank, Blank, "a">>)
    /\ response.result.voice = Some(<<"a">>)
    /\ response.settings.resolution = Some(2161)
    /\ response.result.resolution = Some(2160)

\* The value v, at least lo and at most hi.
Within(lo, hi, v) == IF v < lo THEN lo ELSE IF v > hi THEN hi ELSE v

\* The field k of the settings s is missing or None.
Absent(s, k) == k \notin DOMAIN s \/ s[k] = None

\* C17: for any subset of the fields missing or None and any integers given,
\* normalize_pipeline_settings returns a complete record: the resolution
\* within 240..2160, the fps within 1..60 and the quality within 1..100, each
\* the given value clamped or else its default, and the voice and the
\* speaking rate never blank, each its default when missing or blank.
C17_NormalizeTotalAndClamped ==
    (response.endpoint = "normalize_pipeline_settings" /\ "result" \in DOMAIN response) =>
        LET s == response.settings
            r == response.result
            d == DEFAULT_PIPELINE_SETTINGS
        IN /\ DOMAIN r = DOMAIN d
           /\ \A k \in DOMAIN r : r[k] # None
           /\ r.resolution[1] =
                 Within(240, 2160, IF Absent(s, "resolution") THEN 1080 ELSE s.resolution[1])
           /\ r.fps[1] = Within(1, 60, IF Absent(s, "fps") THEN 30 ELSE s.fps[1])
           /\ r.quality[1] =
                 Within(1, 100, IF Absent(s, "quality") THEN 100 ELSE s.quality[1])
           /\ \A k \in {"voice", "speaking_rate"} :
                 /\ r[k][1] # <<>> /\ Head(r[k][1]) # Blank
                 /\ r[k][1][Len(r[k][1])] # Blank
                 /\ (Absent(s, k) \/ \A i \in DOMAIN s[k][1] : s[k][1][i] = Blank)
                       => r[k] = d[k]

\* C17 witness: a call with the voice blank, the resolution below its limit,
\* the fps above its limit and the quality missing has returned.
C17_Witness ==
    /\ response.endpoint = "normalize_pipeline_settings"
    /\ "result" \in DOMAIN response
    /\ DOMAIN response.settings = {"voice", "resolution", "fps"}
    /\ response.settings.voice = Some(<<Blank>>)
    /\ response.settings.resolution = Some(-1)
    /\ response.settings.fps = Some(61)
    /\ response.result.voice = Some(VOICE)
    /\ response.result.resolution = Some(240)
    /\ response.result.fps = Some(60)
    /\ response.result.quality = Some(100)

\* The slides of the deck d whose notes are not empty after trimming, in
\* slide order.
WithNotes(d) ==
    LET HasNotes(i) == Strip(d[i]) # <<>>
    IN SelectSeq([i \in 1..Len(d) |-> i], HasNotes)

\* The sequence s begins the sequence t.
IsPrefix(s, t) == Len(s) <= Len(t) /\ s = SubSeq(t, 1, Len(s))

\* The synthesis loop of job j has run through all slides.
SynthesisDone(j) == slide_i[j] >= 1 /\ slide_i[j] > Len(slide_notes[j])

\* C18: the synthesis requests of a job are sent for the slides with
\* non-empty trimmed notes, one each and in slide order, and for no other
\* slide; when the loop has run through without a failure there is one for
\* each such slide, and the duration map holds an entry for exactly them.
C18_OneRequestPerSlideWithNotes ==
    \A j \in JobIds :
        /\ IsPrefix(tts_requests[j], WithNotes(deck[j]))
        /\ DOMAIN audio_durations[j] \subseteq {tts_requests[j][i] : i \in DOMAIN tts_requests[j]}
        /\ SynthesisDone(j) =>
              /\ tts_requests[j] = WithNotes(deck[j])
              /\ DOMAIN audio_durations[j]
                    = {WithNotes(deck[j])[i] : i \in DOMAIN WithNotes(deck[j])}

\* C18 witness: the loop has run through a deck whose first slide has blank
\* notes and whose second has text: one request, for slide 2.
C18_Witness ==
    \E j \in JobIds :
        /\ Len(deck[j]) = 2 /\ deck[j][1] = <<Blank>>
        /\ SynthesisDone(j)
        /\ tts_requests[j] = <<2>>
        /\ DOMAIN audio_durations[j] = {2}

\* C19: list_recent_jobs(limit) does not fail, whatever the documents on
\* disk: it returns at most limit records, ordered by updated_at (created_at
\* when that is missing) descending, the first limit of all the documents
\* that can be read, a document that cannot being skipped.
C19_HistoryNeverFails ==
    response.endpoint = "history" =>
        /\ response.code = 200
        /\ Len(response.jobs) <= 25
        /\ \A i \in 1..(Len(response.jobs) - 1) :
              SortKey(response.jobs[i]) >= SortKey(response.jobs[i + 1])
        /\ {response.jobs[i].job_id : i \in DOMAIN response.jobs}
               \cup response.skipped \subseteq JobIds

\* The failures the export fallback protocol raises.
ExportFailures ==
    {"PowerPoint failed to render video",
     "PowerPoint failed to render video. SaveAs fallback also failed",
     "PowerPoint did not produce the video file",
     "PowerPoint produced an empty/locked file",
     "PowerPoint produced an empty/locked file and SaveAs retry failed"}

Checkpoints == <<"report_notes", "report_tts", "report_export", "report_mux">>

\* The stage and the progress a record holds, in the order a run writes
\* them: those of the record convert_ppt inserts, then those of each report.
StageOrder ==
    <<<<NewJob("j1", 1, 2).stage, NewJob("j1", 1, 2).progress>>>>
        \o [i \in DOMAIN Checkpoints |->
              <<ReportArgs(Checkpoints[i]).kwargs.stage,
                ReportArgs(Checkpoints[i]).progress[1]>>]

\* The record r is one a terminal update left.
Terminal(r) == r.status \in {"completed", "error"} /\ r.progress = 100

\* C21: the stage and progress that the creation and the update_job calls of
\* a job leave in its record follow upload(5), notes(12), tts(35),
\* export(60), mux(85) one by one from the first, each at most once, up to
\* one terminal update with progress 100 and the status completed or error,
\* after which nothing is written; a worker that has ended has made that
\* terminal update.
C21_StagesThenOneTerminal ==
    [][\A j \in JobIds :
          /\ (returned[j] = None /\ returned'[j] # None)
                => <<returned'[j][1].stage, returned'[j][1].progress>> = StageOrder[1]
          /\ (returned[j] # None /\ returned'[j] # returned[j])
                => /\ ~Terminal(returned[j][1])
                   /\ \/ Terminal(returned'[j][1])
                      \/ \E i \in 1..(Len(StageOrder) - 1) :
                            /\ <<returned[j][1].stage, returned[j][1].progress>>
                                  = StageOrder[i]
                            /\ <<returned'[j][1].stage, returned'[j][1].progress>>
                                  = StageOrder[i + 1]
                            /\ returned'[j][1].status = "processing"
          /\ pc'[j] = "exited"
                => returned'[j] # None /\ Terminal(returned'[j][1])]_vars


\* The seconds of narration measured for slide i of job j, or those of a
\* slide without narration.
NarrationSeconds(j, i) ==
    IF \E n \in DOMAIN WithNotes(deck[j]) : WithNotes(deck[j])[n] = i
    THEN audio_durations[j][i] ELSE NoNarrationSeconds

\* C22: whenever CreateVideo is invoked, the AdvanceTime of every slide of
\* the open document is that slide's measured narration duration (2 seconds
\* for a slide without narration) plus the head and the tail silence; the
\* timing loop has run twice, on the deck and on the reopened copy, and
\* applied the same values both times; and the copy has been saved with the
\* values of the second run.
C22_TimingsInForceAtExport ==
    [][\A j \in JobIds :
          CreateVideo(j) =>
              /\ Len(timings[j].document) = Len(deck[j])
              /\ \A i \in 1..Len(deck[j]) :
                    timings[j].document[i] =
                        NarrationSeconds(j, i) + DEFAULT_SILENCE_HEAD + DEFAULT_SILENCE_TAIL
              /\ Len(timings[j].applied) = 2
              /\ timings[j].applied[2] = timings[j].applied[1]
              /\ timings[j].document = timings[j].applied[2]
              /\ timings[j].saved
              /\ timings[j].tmp_pptx = File(timings[j].applied[2])]_vars

\* C22 witness: CreateVideo has been invoked on a deck of two slides, the
\* first without narration and the second with.
C22_Witness ==
    \E j \in JobIds :
        /\ pc[j] = "CreateVideoStatus"
        /\ Len(deck[j]) = 2 /\ DOMAIN audio_durations[j] = {2}
        /\ timings[j].document[1] = NoNarrationSeconds
        /\ timings[j].document[2] = audio_durations[j][2]
        /\ timings[j].applied = <<timings[j].document, timings[j].document>>


\* The positions of the worker from the handler of run_conversion_async on.
Handling ==
    {"except", "update_job_progress", "update_job_message", "update_job_kwargs",
     "update_job_stamp", "persist_status_open", "persist_status_write",
     "finally", "finally_raise", "exited"}

\* C23: when a synthesis request of a job has failed, the worker is in the
\* handler or has ended: the failed request is the last one sent, for the
\* slide the loop stood at, every request before it having stored its clip;
\* the export host was not started, no timing was applied, and no video, no
\* narration and no final file was written; and the worker ends with the
\* status error.
C23_SynthesisFailureAborts ==
    \A j \in JobIds :
        exc[j] = "HTTPError" =>
            /\ pc[j] \in Handling
            /\ Len(tts_requests[j]) = Len(audio_files[j]) + 1
            /\ tts_requests[j][Len(tts_requests[j])] = slide_notes[j][slide_i[j]][1]
            /\ ppt[j] = "none" /\ presentation[j] = "none"
            /\ timings[j] = NoTimings /\ save_as_calls[j] = <<>>
            /\ ~video_raw[j].exists /\ ~narration[j].exists /\ ~final_mp4[j].exists
            /\ pc[j] = "exited" => jobs[j].status = "error"

\* C23 witness: on a deck of two slides with notes the first request stored
\* its clip and the second failed; the worker has ended, the job in error.
C23_Witness ==
    \E j \in DOMAIN jobs :
        /\ exc[j] = "HTTPError"
        /\ tts_requests[j] = <<1, 2>> /\ audio_files[j] = <<1>>
        /\ pc[j] = "exited" /\ jobs[j].status = "error"


\* C25: when the submission call has ended, by its return or by a raise of
\* the copy of the upload, every record it inserted with the status
\* processing has had a worker started for it: no call has ended, its record
\* persisted and logged, without the start of the thread.
C25_EveryRecordGetsWorker ==
    \A j \in DOMAIN jobs :
        (jobs[j].status = "processing" /\ pc[j] = "not_started")
            => status_log[j] # <<"Job created">>


\* C24: every external call returning or raising and the export not staying
\* in progress for ever, the worker of every job ends, the job completed or
\* in error.
C24_WorkerEndsJobSettled ==
    \A j \in JobIds :
        (pc[j] = "CoInitialize")
            ~> (pc[j] = "exited" /\ jobs[j].status \in {"completed", "error"})

=============================================================================
